---- MODULE Spec2Model ----
(***************************************************************************)
(* Model of the todo backend (src/app): the todos table, the pydantic      *)
(* request shapes, the five route handlers of main.py and the request      *)
(* scoped session of database.py.                                          *)
(*                                                                         *)
(* Text is modelled as a sequence of runs [c |-> character, n |-> count],  *)
(* so that "a" repeated 200 times is a value the model can hold; length,   *)
(* strip, lower and comparison are computed on that representation.        *)
(* Optional values (str | None, datetime | None, bool | None) are <<>>     *)
(* for None and <<v>> for a value.                                         *)
(***************************************************************************)
EXTENDS Integers, Sequences, FiniteSets, TLC

VARIABLES db, clock, session, req, resp, deleted

vars == <<db, clock, session, req, resp, deleted>>

\* ---------------------------------------------------------------- bounds
MaxId == 2
MaxListId == 3
MaxClock == 1
MaxDeadline == 2
MaxLimit == 2

\* ------------------------------------------------------ program constants
TITLE_MIN_LENGTH == 1
TITLE_MAX_LENGTH == 200
LIMIT_GE == 1
LIMIT_LE == 200
OFFSET_GE == 0

\* ------------------------------------------------------------- optionals
None == <<>>
Some(v) == <<v>>
IsNone(o) == o = <<>>
Val(o) == o[1]

\* ------------------------------------------------------------------ text
Run(c, n) == [c |-> c, n |-> n]

RECURSIVE StrLen(_)
StrLen(s) == IF s = <<>> THEN 0 ELSE Head(s).n + StrLen(Tail(s))

IsSpace(c) == c = " "

RECURSIVE LStrip(_)
LStrip(s) ==
    IF s = <<>> THEN <<>>
    ELSE IF IsSpace(Head(s).c) THEN LStrip(Tail(s))
    ELSE s

RECURSIVE Reverse(_)
Reverse(s) == IF s = <<>> THEN <<>> ELSE Append(Reverse(Tail(s)), Head(s))

RStrip(s) == Reverse(LStrip(Reverse(s)))

Strip(s) == RStrip(LStrip(s))

LowerChar(c) == IF c = "B" THEN "b" ELSE c

Lower(s) == [i \in 1..Len(s) |-> Run(LowerChar(s[i].c), s[i].n)]

Ord(c) ==
    CASE c = " " -> 32
      [] c = "B" -> 66
      [] c = "a" -> 97
      [] c = "b" -> 98

RECURSIVE StrLess(_, _)
StrLess(s, t) ==
    IF t = <<>> THEN FALSE
    ELSE IF s = <<>> THEN TRUE
    ELSE IF Head(s).c # Head(t).c THEN Ord(Head(s).c) < Ord(Head(t).c)
    ELSE IF Head(s).n = Head(t).n THEN StrLess(Tail(s), Tail(t))
    ELSE IF Head(s).n < Head(t).n
         THEN StrLess(Tail(s), <<Run(Head(t).c, Head(t).n - Head(s).n)>> \o Tail(t))
         ELSE StrLess(<<Run(Head(s).c, Head(s).n - Head(t).n)>> \o Tail(s), Tail(t))

\* ------------------------------------------------------------ schemas.py
\* TodoCreate: title: str = Field(min_length=1, max_length=200), checked on
\* the title as sent.
TodoCreate(payload) ==
    /\ StrLen(payload.title) >= TITLE_MIN_LENGTH
    /\ StrLen(payload.title) <= TITLE_MAX_LENGTH

\* TodoUpdate: title: str | None = Field(default=None, min_length=1,
\* max_length=200); an omitted field and an explicit null are both None.
TodoUpdate(payload) ==
    \/ IsNone(payload.title)
    \/ /\ StrLen(Val(payload.title)) >= TITLE_MIN_LENGTH
       /\ StrLen(Val(payload.title)) <= TITLE_MAX_LENGTH

\* Query(pattern=..., ge=..., le=...) of list_todos
ListQuery(q) ==
    /\ q.sort_by \in {"deadline", "created_at", "title"}
    /\ q.order \in {"asc", "desc"}
    /\ q.limit >= LIMIT_GE
    /\ q.limit <= LIMIT_LE
    /\ q.offset >= OFFSET_GE

\* ------------------------------------------------------------- models.py
Todo(id, title, description, deadline, completed, created_at, updated_at) ==
    [id |-> id, title |-> title, description |-> description,
     deadline |-> deadline, completed |-> completed,
     created_at |-> created_at, updated_at |-> updated_at]

SetMax(S) == CHOOSE x \in S : \A y \in S : y <= x

\* Mutant of NextId: the lowest id not in the table.
NextIdLowestFree(store) ==
    CHOOSE i \in 1..(Cardinality(DOMAIN store) + 1) :
        i \notin DOMAIN store /\ \A j \in 1..(i - 1) : j \in DOMAIN store

\* Todo.id is an INTEGER PRIMARY KEY of a SQLite table declared without
\* AUTOINCREMENT: an insert gets the largest id in the table plus one.
NextId(store) == IF DOMAIN store = {} THEN 1 ELSE SetMax(DOMAIN store) + 1

\* ----------------------------------------------------------- responses
Response(status, body) == [status |-> status, body |-> body]
NoResponse == Response(0, <<>>)
NoRequest == [op |-> "none"]

Result(store, status, body) == [db |-> store, resp |-> Response(status, body)]

\* db.get(Todo, todo_id)
DbGet(store, todo_id) ==
    IF todo_id \in DOMAIN store THEN Some(store[todo_id]) ELSE None

\* --------------------------------------------------------------- main.py
create_todo(store, payload, now) ==
    LET todo == Todo(NextId(store), Strip(payload.title), payload.description,
                     payload.deadline, FALSE, now, now)
    IN  Result(store @@ (todo.id :> todo), 201, <<todo>>)

get_todo(store, todo_id) ==
    LET todo == DbGet(store, todo_id)
    IN  IF IsNone(todo) THEN Result(store, 404, <<>>)
        ELSE Result(store, 200, <<Val(todo)>>)

\* Mutant of update_todo: an id that is not stored is inserted (an upsert).
update_todo_upsert(store, todo_id, payload, now) ==
    LET todo == DbGet(store, todo_id)
        t0 == IF IsNone(todo)
              THEN Todo(todo_id, <<>>, None, None, FALSE, now, now)
              ELSE Val(todo)
        t1 == IF ~IsNone(payload.title)
              THEN [t0 EXCEPT !.title = Strip(Val(payload.title))] ELSE t0
        t2 == [t1 EXCEPT !.deadline = payload.deadline, !.updated_at = now]
    IN  Result(store @@ (todo_id :> t2), 200, <<t2>>)

\* Mutant of update_todo: the update stamps created_at as well.
update_todo_touch_created(store, todo_id, payload, now) ==
    LET todo == DbGet(store, todo_id)
    IN  IF IsNone(todo) THEN Result(store, 404, <<>>)
        ELSE LET t == [Val(todo) EXCEPT !.deadline = payload.deadline,
                                       !.created_at = now, !.updated_at = now]
             IN  Result([store EXCEPT ![todo_id] = t], 200, <<t>>)

update_todo(store, todo_id, payload, now) ==
    LET todo == DbGet(store, todo_id)
    IN  IF IsNone(todo) THEN Result(store, 404, <<>>)
        ELSE
          LET t0 == Val(todo)
              t1 == IF ~IsNone(payload.title)
                    THEN [t0 EXCEPT !.title = Strip(Val(payload.title))] ELSE t0
              t2 == IF ~IsNone(payload.description)
                    THEN [t1 EXCEPT !.description = payload.description] ELSE t1
              t3 == IF ~IsNone(payload.deadline) \/ IsNone(payload.deadline)
                    THEN [t2 EXCEPT !.deadline = payload.deadline] ELSE t2
              t4 == IF ~IsNone(payload.completed)
                    THEN [t3 EXCEPT !.completed = Val(payload.completed)] ELSE t3
              t5 == [t4 EXCEPT !.updated_at = now]
          IN  Result([store EXCEPT ![todo_id] = t5], 200, <<t5>>)

delete_todo(store, todo_id) ==
    LET todo == DbGet(store, todo_id)
    IN  IF IsNone(todo) THEN Result(store, 404, <<>>)
        ELSE Result([i \in DOMAIN store \ {todo_id} |-> store[i]], 204, <<>>)

\* ------------------------------------------------- ORDER BY (apply_sort)
Sign(x, y) == IF x < y THEN -1 ELSE IF x > y THEN 1 ELSE 0

StrSign(s, t) == IF StrLess(s, t) THEN -1 ELSE IF StrLess(t, s) THEN 1 ELSE 0

\* SQLite compares NULL as smaller than every value.
NullableSign(x, y) ==
    IF IsNone(x) THEN (IF IsNone(y) THEN 0 ELSE -1)
    ELSE IF IsNone(y) THEN 1
    ELSE Sign(Val(x), Val(y))

\* case((Todo.deadline.is_(None), 1), else_=0)
nulls_last_flag(todo) == IF IsNone(todo.deadline) THEN 1 ELSE 0

\* Mutant of OrderByTerms: the deadline sort without the NULL flag.
OrderByTermsNoNullFlag(a, b, sort_by) ==
    IF sort_by = "created_at"
    THEN <<Sign(a.created_at, b.created_at), Sign(a.id, b.id)>>
    ELSE IF sort_by = "title"
    THEN <<StrSign(Lower(a.title), Lower(b.title)), Sign(a.id, b.id)>>
    ELSE <<NullableSign(a.deadline, b.deadline), Sign(a.id, b.id)>>

\* Mutant of OrderByTerms: no final id term.
OrderByTermsNoIdTiebreak(a, b, sort_by) ==
    IF sort_by = "created_at"
    THEN <<Sign(a.created_at, b.created_at)>>
    ELSE IF sort_by = "title"
    THEN <<StrSign(Lower(a.title), Lower(b.title))>>
    ELSE <<Sign(nulls_last_flag(a), nulls_last_flag(b)),
           NullableSign(a.deadline, b.deadline)>>

\* The ORDER BY terms of apply_sort for rows a and b, each compared
\* ascending: one sign per term.
OrderByTerms(a, b, sort_by) ==
    IF sort_by = "created_at"
    THEN <<Sign(a.created_at, b.created_at), Sign(a.id, b.id)>>
    ELSE IF sort_by = "title"
    THEN <<StrSign(Lower(a.title), Lower(b.title)), Sign(a.id, b.id)>>
    ELSE <<Sign(nulls_last_flag(a), nulls_last_flag(b)),
           NullableSign(a.deadline, b.deadline),
           Sign(a.id, b.id)>>

RECURSIVE FirstNonZero(_)
FirstNonZero(signs) ==
    IF signs = <<>> THEN 0
    ELSE IF Head(signs) # 0 THEN Head(signs)
    ELSE FirstNonZero(Tail(signs))

\* order_fn = asc if order == "asc" else desc, applied to every term
order_fn(order, sign) == IF order = "asc" THEN sign ELSE -sign

\* apply_sort: negative when row a is ordered before row b, 0 when the
\* ORDER BY leaves their order open.
apply_sort(a, b, sort_by, order) ==
    LET terms == OrderByTerms(a, b, sort_by)
    IN  FirstNonZero([i \in 1..Len(terms) |-> order_fn(order, terms[i])])

\* Every row sequence the statement may return: all rows of the table, each
\* next row one that the ORDER BY puts behind no row still to come.
RECURSIVE SortedIds(_, _, _, _)
SortedIds(store, S, sort_by, order) ==
    IF S = {} THEN {<<>>}
    ELSE UNION {{<<x>> \o rest : rest \in SortedIds(store, S \ {x}, sort_by, order)} :
                x \in {x \in S : \A y \in S :
                           apply_sort(store[y], store[x], sort_by, order) >= 0}}

SortedRows(store, sort_by, order) ==
    {[i \in DOMAIN s |-> store[s[i]]] :
        s \in SortedIds(store, DOMAIN store, sort_by, order)}

Min(x, y) == IF x < y THEN x ELSE y

\* stmt.limit(limit).offset(offset)
LimitOffset(rows, limit, offset) ==
    IF offset >= Len(rows) THEN <<>>
    ELSE SubSeq(rows, offset + 1, Min(offset + limit, Len(rows)))

\* list_todos: the result sets the query may produce
list_todos(store, q) ==
    {LimitOffset(rows, q.limit, q.offset) : rows \in SortedRows(store, q.sort_by, q.order)}

\* ----------------------------------------------------------- database.py
\* get_db: db = SessionLocal(); try: yield db
get_db_enter == "open"

\* Mutant of get_db_exit: db.close() after the yield, with no finally.
get_db_exit_no_finally(sess, raised) == IF raised THEN sess ELSE "closed"

\* get_db: finally: db.close(), run whether or not the handler raised
get_db_exit(sess, raised) == "closed"

\* ---------------------------------------------------------------- inputs
TitleEmpty == <<>>
TitleBlank == <<Run(" ", 3)>>
TitlePadded == <<Run(" ", 2), Run("B", 1), Run(" ", 2)>>
TitleLongest == <<Run("a", TITLE_MAX_LENGTH)>>
TitlePaddedLongest == <<Run(" ", 1), Run("a", TITLE_MAX_LENGTH)>>
TitleTooLong == <<Run("a", TITLE_MAX_LENGTH + 1)>>

Titles ==
    {TitleEmpty, TitleBlank, TitlePadded, TitleLongest, TitlePaddedLongest, TitleTooLong}

Descriptions == {None, Some("d")}
Deadlines == {None} \cup {Some(d) : d \in 1..MaxDeadline}
Ids == 1..MaxId
ListIds == 1..MaxListId

Query(sort_by, order, limit, offset) ==
    [sort_by |-> sort_by, order |-> order, limit |-> limit, offset |-> offset]

UpdatePayload(title, description, deadline, completed) ==
    [title |-> title, description |-> description, deadline |-> deadline,
     completed |-> completed]

InvalidQueries ==
    {Query("id", "asc", 1, 0), Query("deadline", "up", 1, 0),
     Query("deadline", "asc", LIMIT_GE - 1, 0),
     Query("deadline", "asc", LIMIT_LE + 1, 0),
     Query("deadline", "asc", 1, OFFSET_GE - 1)}

\* Requests of Spec: every title case, every field of an update.
CreatePayloads ==
    [title : Titles, description : Descriptions, deadline : {None, Some(1)}]

UpdatePayloads ==
    [title : {None, Some(TitleEmpty), Some(TitleBlank)},
     description : Descriptions,
     deadline : {None, Some(1)},
     completed : {None, Some(TRUE)}]

ListQueries ==
    {Query("deadline", "asc", LIMIT_LE, 0), Query("title", "desc", 1, 1)}
    \cup InvalidQueries

\* Requests of SpecList: every deadline, every sort, pages at offset 0 and
\* at offset = limit. SpecList has no update: the fields ORDER BY reads
\* (id, title, deadline, created_at) take no value by an update that a
\* create does not store as well.
SortCreatePayloads ==
    [title : {TitlePadded, TitleLongest}, description : {None}, deadline : Deadlines]

SortListQueries ==
    {Query(sort_by, order, limit, page * limit) :
        sort_by \in {"deadline", "created_at", "title"}, order \in {"asc", "desc"},
        limit \in (1..MaxLimit) \cup {LIMIT_LE}, page \in {0, 1}}

\* Requests of SpecCore and SpecSession: a request of each outcome (201, 200,
\* 204, 404, 422) for every id.
CoreCreatePayloads ==
    [title : {TitleEmpty, TitlePadded}, description : {None},
     deadline : {None, Some(1)}]

CoreUpdatePayloads ==
    {UpdatePayload(None, None, None, Some(TRUE)),
     UpdatePayload(Some(TitleBlank), None, None, None),
     UpdatePayload(Some(TitleEmpty), None, None, None)}

CoreListQueries ==
    {Query("deadline", "asc", LIMIT_LE, 0), Query("id", "asc", 1, 0)}

\* ----------------------------------------------------------------- state
Init ==
    /\ db = <<>>
    /\ clock = 0
    /\ session = "closed"
    /\ req = NoRequest
    /\ resp = NoResponse
    /\ deleted = {}

Idle == req = NoRequest /\ session = "closed"

\* POST /todos
CreateTodo(Payloads, max_id) ==
    /\ Idle
    /\ session' = get_db_enter
    /\ \E payload \in Payloads :
         /\ req' = [op |-> "create", payload |-> payload]
         /\ IF ~TodoCreate(payload)
            THEN /\ resp' = Response(422, <<>>)
                 /\ UNCHANGED <<db, clock>>
            ELSE /\ NextId(db) <= max_id
                 /\ \E now \in clock..MaxClock :
                      LET out == create_todo(db, payload, now)
                      IN  /\ db' = out.db
                          /\ resp' = out.resp
                          /\ clock' = now
    /\ UNCHANGED deleted

\* GET /todos
ListTodos(Queries) ==
    /\ Idle
    /\ session' = get_db_enter
    /\ \E q \in Queries :
         /\ req' = [op |-> "list", query |-> q]
         /\ IF ~ListQuery(q)
            THEN resp' = Response(422, <<>>)
            ELSE \E body \in list_todos(db, q) : resp' = Response(200, body)
    /\ UNCHANGED <<db, clock, deleted>>

\* GET /todos/{todo_id}
GetTodo(TodoIds) ==
    /\ Idle
    /\ session' = get_db_enter
    /\ \E todo_id \in TodoIds :
         /\ req' = [op |-> "get", id |-> todo_id]
         /\ resp' = get_todo(db, todo_id).resp
    /\ UNCHANGED <<db, clock, deleted>>

\* PUT /todos/{todo_id}
UpdateTodo(TodoIds, Payloads) ==
    /\ Idle
    /\ session' = get_db_enter
    /\ \E todo_id \in TodoIds, payload \in Payloads :
         /\ req' = [op |-> "update", id |-> todo_id, payload |-> payload]
         /\ IF ~TodoUpdate(payload)
            THEN /\ resp' = Response(422, <<>>)
                 /\ UNCHANGED <<db, clock>>
            ELSE \E now \in clock..MaxClock :
                      LET out == update_todo(db, todo_id, payload, now)
                      IN  /\ db' = out.db
                          /\ resp' = out.resp
                          /\ clock' = IF out.resp.status = 200 THEN now ELSE clock
    /\ UNCHANGED deleted

\* DELETE /todos/{todo_id}
DeleteTodo(TodoIds) ==
    /\ Idle
    /\ session' = get_db_enter
    /\ \E todo_id \in TodoIds :
         LET out == delete_todo(db, todo_id)
         IN  /\ req' = [op |-> "delete", id |-> todo_id]
             /\ db' = out.db
             /\ resp' = out.resp
             /\ deleted' = IF out.resp.status = 204
                            THEN deleted \cup {todo_id} ELSE deleted
    /\ UNCHANGED clock

\* The request ends: the finally block of get_db runs.
Close ==
    /\ req # NoRequest
    /\ session' = get_db_exit(session, resp.status >= 400)
    /\ req' = NoRequest
    /\ resp' = NoResponse
    /\ UNCHANGED <<db, clock, deleted>>

Next ==
    \/ CreateTodo(CreatePayloads, MaxId)
    \/ ListTodos(ListQueries)
    \/ GetTodo(Ids)
    \/ UpdateTodo(Ids, UpdatePayloads)
    \/ DeleteTodo(Ids)
    \/ Close

Spec == Init /\ [][Next]_vars

NextList ==
    \/ CreateTodo(SortCreatePayloads, MaxListId)
    \/ ListTodos(SortListQueries)
    \/ GetTodo(ListIds)
    \/ DeleteTodo(ListIds)
    \/ Close

SpecList == Init /\ [][NextList]_vars

NextCore ==
    \/ CreateTodo(CoreCreatePayloads, MaxId)
    \/ ListTodos(CoreListQueries)
    \/ GetTodo(Ids)
    \/ UpdateTodo(Ids, CoreUpdatePayloads)
    \/ DeleteTodo(Ids)
    \/ Close

SpecCore == Init /\ [][NextCore]_vars

\* The finally block of a started generator always runs.
SpecSession == SpecCore /\ WF_vars(Close)

\* ---------------------------------------------------------------- claims
Handled(op) == req = NoRequest /\ req'.op = op

Rows == {db[i] : i \in DOMAIN db}

\* C1: an update changes only the fields its payload carries: a field the
\* payload omits keeps its stored value, and updated_at is set to the time
\* of the update.
C1_UpdateKeepsOmittedFields ==
    [][(Handled("update") /\ resp'.status = 200) =>
        LET p == req'.payload
            old == db[req'.id]
            new == db'[req'.id]
        IN  /\ IsNone(p.title) => new.title = old.title
            /\ IsNone(p.description) => new.description = old.description
            /\ IsNone(p.deadline) => new.deadline = old.deadline
            /\ IsNone(p.completed) => new.completed = old.completed
            /\ new.updated_at = clock']_vars

TrimmedLengthOk(title) ==
    /\ StrLen(Strip(title)) >= TITLE_MIN_LENGTH
    /\ StrLen(Strip(title)) <= TITLE_MAX_LENGTH

\* C2: a create succeeds exactly when the trimmed title has 1 to 200
\* characters and then stores the trimmed title; otherwise it fails with a
\* validation error and the table is unchanged.
C2_CreateValidatesTrimmedTitle ==
    [][Handled("create") =>
        IF TrimmedLengthOk(req'.payload.title)
        THEN /\ resp'.status = 201
             /\ resp'.body[1].title = Strip(req'.payload.title)
             /\ db' = db @@ (resp'.body[1].id :> resp'.body[1])
        ELSE /\ resp'.status = 422
             /\ db' = db]_vars

\* C3: every stored title is trimmed and is neither empty nor blank.
C3_StoredTitlesTrimmedNonEmpty ==
    \A t \in Rows : Strip(t.title) = t.title /\ StrLen(t.title) >= TITLE_MIN_LENGTH

\* C4: a list sorted by deadline, ascending or descending, has no row
\* without a deadline before a row with one.
C4_NullDeadlinesLastBothOrders ==
    (req.op = "list" /\ resp.status = 200 /\ req.query.sort_by = "deadline") =>
        \A i, j \in DOMAIN resp.body :
            i < j => ~(IsNone(resp.body[i].deadline) /\ ~IsNone(resp.body[j].deadline))

WholeTable(q) == q.offset = 0 /\ q.limit >= Cardinality(DOMAIN db)

DeadlineAscending(a, b) ==
    IF IsNone(a.deadline) THEN IsNone(b.deadline) /\ a.id < b.id
    ELSE IF IsNone(b.deadline) THEN TRUE
    ELSE \/ Val(a.deadline) < Val(b.deadline)
         \/ Val(a.deadline) = Val(b.deadline) /\ a.id < b.id

\* C5: a list of the whole table by deadline ascending holds every stored
\* row once: the rows with a deadline by ascending deadline, equal deadlines
\* by ascending id, then the rows without one by ascending id.
C5_DeadlineAscendingOrder ==
    (/\ req.op = "list" /\ resp.status = 200
     /\ req.query.sort_by = "deadline" /\ req.query.order = "asc"
     /\ WholeTable(req.query)) =>
        /\ Len(resp.body) = Cardinality(DOMAIN db)
        /\ \A i \in DOMAIN resp.body : resp.body[i] \in Rows
        /\ \A i, j \in DOMAIN resp.body :
              i < j => DeadlineAscending(resp.body[i], resp.body[j])

C5_Witness ==
    /\ req.op = "list" /\ resp.status = 200
    /\ req.query.sort_by = "deadline" /\ req.query.order = "asc"
    /\ WholeTable(req.query)
    /\ Len(resp.body) = 3
    /\ ~IsNone(resp.body[1].deadline)
    /\ resp.body[1].deadline = resp.body[2].deadline
    /\ IsNone(resp.body[3].deadline)
    /\ resp.body[3].id < resp.body[1].id

C7_MissingIdNotFound ==
    [][(/\ req = NoRequest
        /\ req'.op \in {"get", "update", "delete"}
        /\ req'.id \notin DOMAIN db) =>
            /\ db' = db
            /\ (req'.op = "update" => TodoUpdate(req'.payload)) => resp'.status = 404]_vars

C7_Witness ==
    /\ req.op = "update" /\ resp.status = 404
    /\ req.id \notin DOMAIN db
    /\ db # <<>>

\* C8: created_at <= updated_at for every stored row; a create stores
\* created_at = updated_at; an update leaves created_at as it was.
C8_CreatedNotAfterUpdated ==
    [][/\ \A i \in DOMAIN db' : db'[i].created_at <= db'[i].updated_at
       /\ (Handled("create") /\ resp'.status = 201) =>
            resp'.body[1].created_at = resp'.body[1].updated_at
       /\ (Handled("update") /\ resp'.status = 200) =>
            db'[req'.id].created_at = db[req'.id].created_at]_vars

C8_Witness ==
    /\ req.op = "update" /\ resp.status = 200
    /\ db[req.id].created_at < db[req.id].updated_at

NoSharedId(first, second) ==
    \A i \in DOMAIN first, j \in DOMAIN second : first[i].id # second[j].id

\* C9: for the sort of a list request and its limit L, the pages at offset
\* 0 and offset L share no row, hold at most L rows each, and together are
\* the first min(2L, n) rows of the sorted table, whichever result each
\* query produces; the response is the page of its offset.
C9_PagesPartition ==
    (req.op = "list" /\ resp.status = 200) =>
        LET q == req.query
            L == q.limit
            n == Cardinality(DOMAIN db)
        IN  \A first \in list_todos(db, Query(q.sort_by, q.order, L, 0)),
               second \in list_todos(db, Query(q.sort_by, q.order, L, L)),
               rows \in SortedRows(db, q.sort_by, q.order) :
                /\ NoSharedId(first, second)
                /\ Len(first) <= L /\ Len(second) <= L
                /\ first \o second = SubSeq(rows, 1, Min(2 * L, n))
                /\ q.offset = 0 => resp.body = first
                /\ q.offset = L => resp.body = second

C9_Witness ==
    /\ req.op = "list" /\ resp.status = 200
    /\ req.query.sort_by = "title"
    /\ req.query.limit = 2 /\ req.query.offset = 2
    /\ Cardinality(DOMAIN db) = 3
    /\ \A a, b \in Rows : a.title = b.title
    /\ Len(resp.body) = 1

\* C10: a session that a request opened is closed when the request ends,
\* whatever the handler answered, and a request answered with an error
\* leaves the table as it was.
C10_SessionReleased ==
    /\ (session = "open") ~> (session = "closed")
    /\ [][resp'.status >= 400 => db' = db]_vars

C10_Witness ==
    /\ session = "open"
    /\ req.op = "update" /\ resp.status = 404

====
